---- MODULE Spec2Model ----
(***************************************************************************)
(* macpack/patcher.py: collect() discovers the closure of non-system       *)
(* libraries of a root binary wave by wave; patch() copies every library   *)
(* into the destination directory and rewrites the load commands with      *)
(* install_name_tool; main() ties both together.                           *)
(*                                                                         *)
(* Dependency objects live in `heap`, keyed by an object identity.  The    *)
(* identity of the root is <<>>; the k-th object created by the            *)
(* inspection of object o is Append(o, k).  Two objects are equal (==)     *)
(* when their paths are equal; they are identical when their keys are.     *)
(***************************************************************************)
EXTENDS Integers, Sequences, FiniteSets, TLC

\* ------------------------------------------------------------------ bounds
\* total number of load commands the inspected binaries declare, when
\* collect() is run on its own
MaxEdges == 4
\* the same, in a whole run of main()
MaxRunEdges == 3
\* the same, in the runs of collect() checked for termination
MaxFairEdges == 3
\* the same, in the whole runs of main() over small graphs
MaxSmallEdges == 2
\* number of install_name_tool invocations that may return non-zero
MaxPatchFailures == 1

\* ------------------------------------------------------------- the universe
\* a canonical path is <<directory, file name>>
RootPath == <<"bin", "app">>
NonSysPaths == {RootPath, <<"lib", "libA">>, <<"lib", "libB">>, <<"opt", "libB">>}
SysPaths == {<<"usr", "libSystem">>}
Paths == NonSysPaths \cup SysPaths
\* the literal reference strings a binary may embed
RefStrings == {"r1", "r2"}
\* target of a load command that resolves to no file
NoFile == <<"none", "none">>
\* args.destination: the default, '../libs'
Destinations == {<<"..", "libs">>}

VARIABLES
    args,            \* parsed command line: file_exists, dry_run, verbose, destination
    pc,              \* position of the control thread
    otool,           \* what inspection reported for each inspected path
    budget,          \* load commands the files not yet inspected may still declare
    heap,            \* Dependency objects: path, referred_as, dependencies
    stack,           \* collect: stack of frontiers
    current_items,   \* collect: the frontier being processed
    all_resolved,    \* collect: resolved objects, in discovery order
    failed_paths,    \* collect: unresolved reference strings
    pending,         \* collect: indexes of current_items whose inspection is in flight
    results,         \* collect: what each find_dependencies() returned
    inspections,     \* every find_dependencies() call issued: <<wave, object>>
    wave,            \* collect: number of frontiers popped so far
    to_resolve,      \* collect: the next frontier under construction
    mi,              \* collect: index of `item` in the zip loop
    mj,              \* collect: index of `dep` in the inner loop
    warned,          \* collect: the unresolved-paths warning was printed
    listing,         \* prepatch_output: the dependency names printed
    items,           \* patch: [root_item] + root_item.get_dependencies()
    pi,              \* patch: index of `item` in the loop over items
    log,             \* file system and subprocess events, in order
    process_results, \* patch: return code of each invocation
    reported,        \* patch: items named in an 'Error patching <name>' line
    exit_code        \* status the process exited with; -1 while running

collectVars == <<otool, budget, heap, stack, current_items, all_resolved, failed_paths,
                 pending, results, inspections, wave, to_resolve, mi, mj, warned>>
patchVars == <<listing, items, pi, log, process_results, reported>>
vars == <<args, pc, collectVars, patchVars, exit_code>>

\* ------------------------------------------------------------------ helpers
RECURSIVE Flatten(_)
Flatten(ss) == IF ss = <<>> THEN <<>> ELSE Head(ss) \o Flatten(Tail(ss))

Range(s) == {s[k] : k \in 1..Len(s)}

RECURSIVE SelectSeqBy(_, _)
\* the subsequence of s whose elements are in set S
SelectSeqBy(s, S) ==
    IF s = <<>> THEN <<>>
    ELSE (IF Head(s) \in S THEN <<Head(s)>> ELSE <<>>) \o SelectSeqBy(Tail(s), S)

\* Dependency.path.name
Name(p) == p[2]

\* Dependency.is_sys(): the path falls under a reserved system location
is_sys(p) == p[1] = "usr"

\* Dependency.__eq__: equality of two objects is equality of their paths
DepEq(h, a, b) == h[a].path = h[b].path

\* list.index(x) for `x in list`: position of the first element == x; 0 if none
IndexOf(h, list, x) ==
    IF \E k \in 1..Len(list) : DepEq(h, list[k], x)
    THEN CHOOSE k \in 1..Len(list) :
            /\ DepEq(h, list[k], x)
            /\ \A l \in 1..(k-1) : ~DepEq(h, list[l], x)
    ELSE 0

\* Dependency.__init__(reference, path)
NewDependency(ref, path) ==
    [path |-> path, referred_as |-> {ref}, dependencies |-> <<>>]

\* Dependency.merge(other): the references of other are added to self
MergedReferredAs(h, existing, dep) == h[existing].referred_as \cup h[dep].referred_as

\* ------------------------------------------------------ the inspected files
\* A load command is <<reference string, path it resolves to or NoFile>>; one
\* binary declares each reference string at most once.
LoadCmds == RefStrings \X (Paths \cup {NoFile})
LoadCmdLists ==
    {<<>>} \cup {<<c>> : c \in LoadCmds}
           \cup {<<c, d>> : <<c, d>> \in {x \in LoadCmds \X LoadCmds : x[1][1] # x[2][1]}}

\* otool[p] before the file at p is inspected
NotInspected == [done |-> FALSE, cmds |-> <<>>]

\* the load commands of cmds that resolve to a file / that do not
Resolving(cmds) == SelectSeqBy(cmds, {c \in LoadCmds : c[2] # NoFile})
Failing(cmds) == SelectSeqBy(cmds, {c \in LoadCmds : c[2] = NoFile})

\* ------------------------------------------------------------------- Init
Init ==
    /\ args \in [file_exists : BOOLEAN, dry_run : BOOLEAN, verbose : BOOLEAN,
                  destination : Destinations]
    /\ pc = "main"
    /\ otool = [p \in NonSysPaths |-> NotInspected]
    /\ budget = MaxRunEdges
    /\ heap = <<>>
    /\ stack = <<>>
    /\ current_items = <<>>
    /\ all_resolved = <<>>
    /\ failed_paths = <<>>
    /\ pending = {}
    /\ results = <<>>
    /\ inspections = {}
    /\ wave = 0
    /\ to_resolve = <<>>
    /\ mi = 1
    /\ mj = 1
    /\ warned = FALSE
    /\ listing = <<>>
    /\ items = <<>>
    /\ pi = 1
    /\ log = <<>>
    /\ process_results = <<>>
    /\ reported = <<>>
    /\ exit_code = -1

\* ------------------------------------------------------------------- main
\* identity of the root Dependency object
Root == <<>>

\* (mutation) the path is resolved without strict=True
FileFoundAlways(a) == TRUE

\* main, lines 160-162: resolve(strict=True) raises FileNotFoundError unless
\* the file exists
FileFound(a) == a.file_exists

\* main, lines 160-164: the root Dependency is built unless the file is missing
MainStart ==
    /\ pc = "main"
    /\ IF FileFound(args)
       THEN /\ heap' = (Root :> NewDependency("argfile", RootPath))
            /\ pc' = "collect"
            /\ UNCHANGED exit_code
       ELSE /\ pc' = "exit"
            /\ exit_code' = 1
            /\ UNCHANGED heap
    /\ UNCHANGED <<args, otool, budget, stack, current_items, all_resolved, failed_paths,
                   pending, results, inspections, wave, to_resolve, mi, mj, warned,
                   patchVars>>

\* ---------------------------------------------------------------- collect
\* collect, lines 19-21
CollectStart ==
    /\ pc = "collect"
    /\ failed_paths' = <<>>
    /\ all_resolved' = <<>>
    /\ stack' = << <<Root>> >>
    /\ pc' = "loop"
    /\ UNCHANGED <<args, otool, budget, heap, current_items, pending, results, inspections,
                   wave, to_resolve, mi, mj, warned, patchVars, exit_code>>

\* collect, lines 23-27: pop a frontier, append it to all_resolved and issue
\* find_dependencies() for each of its items
PopWave ==
    /\ pc = "loop"
    /\ Len(stack) > 0
    /\ current_items' = stack[Len(stack)]
    /\ stack' = SubSeq(stack, 1, Len(stack) - 1)
    /\ all_resolved' = all_resolved \o stack[Len(stack)]
    /\ pending' = 1..Len(stack[Len(stack)])
    /\ results' = [k \in 1..Len(stack[Len(stack)]) |-> [deps |-> <<>>, fails |-> <<>>]]
    /\ wave' = wave + 1
    /\ inspections' = inspections \cup {<<wave + 1, stack[Len(stack)][k]>> :
                                            k \in 1..Len(stack[Len(stack)])}
    /\ pc' = "gather"
    /\ UNCHANGED <<args, otool, budget, heap, failed_paths, to_resolve, mi, mj, warned,
                   patchVars, exit_code>>

\* Dependency.find_dependencies() of current_items[k] completes: one fresh
\* Dependency per load command that resolves, stored in self.dependencies and
\* returned together with the reference strings that did not resolve
FindDependencies(k, cmds) ==
    LET o == current_items[k]
        deps == Resolving(cmds)
        ids == [n \in 1..Len(deps) |-> Append(o, n)]
        fresh == [id \in Range(ids) |->
                    NewDependency(deps[id[Len(id)]][1], deps[id[Len(id)]][2])]
    IN  /\ heap' = [(fresh @@ heap) EXCEPT ![o].dependencies = ids]
        /\ results' = [results EXCEPT ![k] =
                          [deps |-> ids,
                           fails |-> [n \in 1..Len(Failing(cmds)) |-> Failing(cmds)[n][1]]]]

InspectDone(k) ==
    /\ pc = "gather"
    /\ k \in pending
    /\ LET p == heap[current_items[k]].path IN
         IF otool[p].done
         THEN /\ FindDependencies(k, otool[p].cmds)
              /\ UNCHANGED <<otool, budget>>
         ELSE \E cmds \in LoadCmdLists :
                /\ Len(cmds) <= budget
                /\ otool' = [otool EXCEPT ![p] = [done |-> TRUE, cmds |-> cmds]]
                /\ budget' = budget - Len(cmds)
                /\ FindDependencies(k, cmds)
    /\ pending' = pending \ {k}
    /\ UNCHANGED <<args, pc, stack, current_items, all_resolved, failed_paths,
                   inspections, wave, to_resolve, mi, mj, warned, patchVars, exit_code>>

\* (mutation) gather() returns as soon as at most one inspection is left
GatherReturnsEarly(pend) == Cardinality(pend) <= 1

\* collect, line 27: `await asyncio.gather(...)` returns when every
\* find_dependencies() of the frontier has returned
GatherReturns(pend) == pend = {}

\* (mutation) failed_paths is assigned, not extended
ReplaceFails(fails, res) ==
    Flatten([k \in 1..Len(res) |-> res[k].fails])

\* collect, lines 29-30: failed_paths += fails, in the order of current_items
AccumulateFails(fails, res) ==
    fails \o Flatten([k \in 1..Len(res) |-> res[k].fails])

\* collect, lines 27-33: gather() returned; the failures are accumulated in
\* the order of current_items
GatherDone ==
    /\ pc = "gather"
    /\ GatherReturns(pending)
    /\ failed_paths' = AccumulateFails(failed_paths, results)
    /\ to_resolve' = <<>>
    /\ mi' = 1
    /\ mj' = 1
    /\ pc' = "merge"
    /\ UNCHANGED <<args, otool, budget, heap, stack, current_items, all_resolved, pending,
                   results, inspections, wave, warned, patchVars, exit_code>>

\* collect, lines 41-46: the object already seen for dep, first among
\* all_resolved, then among to_resolve; <<-1>> when there is none
None == <<-1>>

\* (mutation) the lookup among all_resolved is left out
ExistingDepQueuedOnly(h, resolved, queued, dep) ==
    IF IndexOf(h, queued, dep) # 0 THEN queued[IndexOf(h, queued, dep)]
    ELSE None

\* (mutation) the lookup among to_resolve is left out
ExistingDepResolvedOnly(h, resolved, queued, dep) ==
    IF IndexOf(h, resolved, dep) # 0 THEN resolved[IndexOf(h, resolved, dep)]
    ELSE None

\* (mutation) no lookup at all: every dependency is taken as new
ExistingDepNever(h, resolved, queued, dep) == None

\* collect, lines 41-46
ExistingDep(h, resolved, queued, dep) ==
    IF IndexOf(h, resolved, dep) # 0 THEN resolved[IndexOf(h, resolved, dep)]
    ELSE IF IndexOf(h, queued, dep) # 0 THEN queued[IndexOf(h, queued, dep)]
    ELSE None

\* collect, line 52: item.dependencies[item.dependencies.index(dep)] = existing_dep
ReplaceDep(h, list, dep, existing) ==
    [list EXCEPT ![IndexOf(h, list, dep)] = existing]

\* collect, lines 38-54: one iteration of the inner loop
MergeStep ==
    /\ pc = "merge"
    /\ mi <= Len(current_items)
    /\ mj <= Len(results[mi].deps)
    /\ LET item == current_items[mi]
           dep == results[mi].deps[mj]
           existing_dep == ExistingDep(heap, all_resolved, to_resolve, dep)
       IN  IF ~is_sys(heap[dep].path)
           THEN IF existing_dep # None
                THEN /\ heap' = [heap EXCEPT
                                   ![existing_dep].referred_as =
                                       MergedReferredAs(heap, existing_dep, dep),
                                   ![item].dependencies =
                                       ReplaceDep(heap, heap[item].dependencies,
                                                  dep, existing_dep)]
                     /\ UNCHANGED to_resolve
                ELSE /\ to_resolve' = Append(to_resolve, dep)
                     /\ UNCHANGED heap
           ELSE UNCHANGED <<heap, to_resolve>>
    /\ mj' = mj + 1
    /\ UNCHANGED <<args, pc, otool, budget, stack, current_items, all_resolved, failed_paths,
                   pending, results, inspections, wave, mi, warned, patchVars, exit_code>>

\* collect, line 34: the inner loop is exhausted, zip yields the next item
MergeNextItem ==
    /\ pc = "merge"
    /\ mi <= Len(current_items)
    /\ mj > Len(results[mi].deps)
    /\ mi' = mi + 1
    /\ mj' = 1
    /\ UNCHANGED <<args, pc, otool, budget, heap, stack, current_items, all_resolved,
                   failed_paths, pending, results, inspections, wave, to_resolve,
                   warned, patchVars, exit_code>>

\* (mutation) a frontier of a single object is not pushed
PushFrontierIfSeveral(stk, queued) ==
    IF Len(queued) > 1 THEN Append(stk, queued) ELSE stk

\* collect, lines 56-57
PushFrontier(stk, queued) ==
    IF Len(queued) > 0 THEN Append(stk, queued) ELSE stk

MergeDone ==
    /\ pc = "merge"
    /\ mi > Len(current_items)
    /\ stack' = PushFrontier(stack, to_resolve)
    /\ pc' = "loop"
    /\ UNCHANGED <<args, otool, budget, heap, current_items, all_resolved, failed_paths,
                   pending, results, inspections, wave, to_resolve, mi, mj, warned,
                   patchVars, exit_code>>

\* collect, lines 23 and 59-66: the stack is empty, the loop ends and the
\* warning is printed when some path failed to resolve
CollectReturn ==
    /\ pc = "loop"
    /\ Len(stack) = 0
    /\ warned' = (Len(failed_paths) > 0)
    /\ pc' = "prepatch"
    /\ UNCHANGED <<args, otool, budget, heap, stack, current_items, all_resolved,
                   failed_paths, pending, results, inspections, wave, to_resolve,
                   mi, mj, patchVars, exit_code>>

\* collect(root_dep) on its own, called with a freshly built root
InitCollect ==
    /\ args \in [file_exists : {TRUE}, dry_run : {FALSE}, verbose : {FALSE},
                  destination : {<<"..", "libs">>}]
    /\ pc = "collect"
    /\ otool = [p \in NonSysPaths |-> NotInspected]
    /\ budget \in {MaxEdges}
    /\ heap = (Root :> NewDependency("argfile", RootPath))
    /\ stack = <<>>
    /\ current_items = <<>>
    /\ all_resolved = <<>>
    /\ failed_paths = <<>>
    /\ pending = {}
    /\ results = <<>>
    /\ inspections = {}
    /\ wave = 0
    /\ to_resolve = <<>>
    /\ mi = 1
    /\ mj = 1
    /\ warned = FALSE
    /\ listing = <<>>
    /\ items = <<>>
    /\ pi = 1
    /\ log = <<>>
    /\ process_results = <<>>
    /\ reported = <<>>
    /\ exit_code = -1

NextCollect ==
    \/ CollectStart
    \/ PopWave
    \/ \E k \in 1..2 : InspectDone(k)
    \/ GatherDone
    \/ MergeStep
    \/ MergeNextItem
    \/ MergeDone
    \/ CollectReturn

SpecCollect == InitCollect /\ [][NextCollect]_vars

\* ------------------------------------------------------- the closed graph
\* Dependency.get_direct_dependencies(): the non-system entries of dependencies
get_direct_dependencies(h, o) ==
    SelectSeqBy(h[o].dependencies, {d \in DOMAIN h : ~is_sys(h[d].path)})

RECURSIVE AppendNew(_, _, _)
\* the elements of cand that are == to none of seen, nor to an earlier one
AppendNew(h, seen, cand) ==
    IF cand = <<>> THEN <<>>
    ELSE IF IndexOf(h, seen, Head(cand)) # 0
         THEN AppendNew(h, seen, Tail(cand))
         ELSE <<Head(cand)>> \o AppendNew(h, Append(seen, Head(cand)), Tail(cand))

RECURSIVE Walk(_, _, _)
Walk(h, seen, frontier) ==
    IF frontier = <<>> THEN seen
    ELSE Walk(h, seen \o frontier,
              AppendNew(h, seen \o frontier,
                        Flatten([k \in 1..Len(frontier) |->
                                    get_direct_dependencies(h, frontier[k])])))

\* Dependency.get_dependencies(): every non-system object reachable from o,
\* one per path, o itself left out, in discovery order
get_dependencies(h, o) == Tail(Walk(h, <<>>, <<o>>))

\* ------------------------------------------------------------------ paths
\* str(path) of a canonical path: its components from the file system root
FullPath(p) == <<"/", p[1], p[2]>>
Parent(p) == <<"/", p[1]>>
IsAbsolute(p) == Len(p) > 0 /\ p[1] = "/"

RECURSIVE NormPath(_, _)
\* os.path.normpath: `..` components are resolved against what precedes them
NormPath(done, rest) ==
    IF rest = <<>> THEN done
    ELSE IF Head(rest) = ".." /\ Len(done) > 1
         THEN NormPath(SubSeq(done, 1, Len(done) - 1), Tail(rest))
         ELSE IF Head(rest) = ".." THEN NormPath(done, Tail(rest))
         ELSE NormPath(Append(done, Head(rest)), Tail(rest))

RECURSIVE CommonPrefix(_, _)
CommonPrefix(a, b) ==
    IF a = <<>> \/ b = <<>> \/ Head(a) # Head(b) THEN 0
    ELSE 1 + CommonPrefix(Tail(a), Tail(b))

\* os.path.relpath(path, start)
RelPath(path, start) ==
    LET a == NormPath(<<>>, path)
        b == NormPath(<<>>, start)
        c == CommonPrefix(a, b)
    IN  [k \in 1..(Len(b) - c) |-> ".."] \o SubSeq(a, c + 1, Len(a))

\* pathlib.PurePath('@loader_path')
LoaderPath == <<"@loader_path">>

\* get_dest_and_loader_path, lines 148-156: <<dest_path, loader_path>>
get_dest_and_loader_path(root_dep_path, dest_path) ==
    IF IsAbsolute(dest_path)
    THEN <<dest_path, dest_path>>
    ELSE <<Parent(root_dep_path) \o dest_path,
           LoaderPath \o RelPath(Parent(root_dep_path) \o dest_path,
                                 Parent(root_dep_path))>>

DestPath == get_dest_and_loader_path(RootPath, args.destination)[1]
RootLoaderPath == get_dest_and_loader_path(RootPath, args.destination)[2]

\* --------------------------------------------------------- prepatch_output
\* print_deps_minimal, line 123: deps.index(d) raises ValueError when a
\* dependency refers to an object that is not == to any element of deps
IndexRaises(h, deps) ==
    \E k \in 1..Len(deps) : \E d \in Range(get_direct_dependencies(h, deps[k])) :
        IndexOf(h, deps, d) = 0

\* main, lines 170-172: the listing is printed; in the minimal form it ends
\* with the uncaught ValueError
PrepatchOutput ==
    /\ pc = "prepatch"
    /\ LET deps == get_dependencies(heap, Root) IN
         IF ~args.verbose /\ IndexRaises(heap, deps)
         THEN /\ pc' = "crash"
              /\ exit_code' = 1
              /\ listing' = <<"Patching">>
         ELSE /\ pc' = "dry_run"
              /\ listing' = <<"Patching">> \o
                            [k \in 1..Len(deps) |-> Name(heap[deps[k]].path)]
              /\ UNCHANGED exit_code
    /\ UNCHANGED <<args, collectVars, items, pi, log, process_results, reported>>

\* (mutation) the dry-run flag is not looked at
PatchAlways(a) == TRUE

\* main, line 174: `if not args.dry_run`
PatchRequested(a) == ~a.dry_run

\* main, lines 174 and 185: nothing more is done in a dry run
DryRunExit ==
    /\ pc = "dry_run"
    /\ ~PatchRequested(args)
    /\ pc' = "exit"
    /\ exit_code' = 0
    /\ UNCHANGED <<args, collectVars, patchVars>>

\* ------------------------------------------------------------------ patch
\* (mutation) os.makedirs is called without looking for the directory
ensure_dirAlways(lg, path) == << [op |-> "makedirs", path |-> path] >>

\* ensure_dir, lines 69-71: the events of creating path when it is absent
ensure_dir(lg, path) ==
    IF \E k \in 1..Len(lg) : lg[k].op = "makedirs" /\ lg[k].path = path
    THEN <<>>
    ELSE << [op |-> "makedirs", path |-> path] >>

\* main, line 174, and patch, lines 75-79
PatchStart ==
    /\ pc = "dry_run"
    /\ PatchRequested(args)
    /\ items' = <<Root>> \o get_dependencies(heap, Root)
    /\ log' = log \o ensure_dir(log, DestPath)
    /\ process_results' = <<>>
    /\ pi' = 1
    /\ pc' = "patch"
    /\ UNCHANGED <<args, collectVars, listing, reported, exit_code>>

RECURSIVE SetToSeq(_)
\* the elements of a set of strings, in the order the set is iterated
SetToSeq(S) ==
    IF S = {} THEN <<>>
    ELSE LET x == CHOOSE y \in S : TRUE IN <<x>> \o SetToSeq(S \ {x})

\* patch, lines 84-88: the file install_name_tool works on
PatchTarget(h, item, root_item) ==
    IF DepEq(h, item, root_item)
    THEN FullPath(h[root_item].path)
    ELSE DestPath \o <<Name(h[item].path)>>

\* patch, lines 84-87: the copy made before the invocation
CopyEvents(h, item, root_item) ==
    IF DepEq(h, item, root_item)
    THEN <<>>
    ELSE << [op |-> "copyfile", item |-> item, src |-> FullPath(h[item].path),
             dst |-> DestPath \o <<Name(h[item].path)>>] >>

\* (mutation) the two assignments of lines 94-95 in the opposite order
NewPathConsumerLast(h, item, dep, root_item) ==
    LET new_path == IF ~DepEq(h, dep, root_item) THEN RootLoaderPath ELSE LoaderPath
    IN  IF ~DepEq(h, item, root_item) THEN LoaderPath ELSE RootLoaderPath

\* patch, lines 94-95
NewPath(h, item, dep, root_item) ==
    LET new_path == IF ~DepEq(h, item, root_item) THEN LoaderPath ELSE RootLoaderPath
    IN  IF ~DepEq(h, dep, root_item) THEN new_path ELSE LoaderPath

\* (mutation) only one reference string of each dependency is rewritten
ChangesOneReference(h, item, root_item) ==
    LET deps == get_direct_dependencies(h, item) IN
    [k \in 1..Len(deps) |->
        <<SetToSeq(h[deps[k]].referred_as)[1],
          NewPath(h, item, deps[k], root_item) \o <<Name(h[deps[k]].path)>> >>]

\* (mutation) only the strings the consumer itself uses for the dependency
ChangesOwnReferences(h, item, root_item) ==
    LET deps == get_direct_dependencies(h, item) IN
    Flatten([k \in 1..Len(deps) |->
        LET refs == SetToSeq({r \in h[deps[k]].referred_as :
                                <<r, h[deps[k]].path>> \in
                                    Range(otool[h[item].path].cmds)}) IN
        [n \in 1..Len(refs) |->
            <<refs[n], NewPath(h, item, deps[k], root_item)
                          \o <<Name(h[deps[k]].path)>> >>]])

\* patch, lines 92-96: the -change arguments, <<reference, new reference>>
Changes(h, item, root_item) ==
    LET deps == get_direct_dependencies(h, item) IN
    Flatten([k \in 1..Len(deps) |->
        LET refs == SetToSeq(h[deps[k]].referred_as) IN
        [n \in 1..Len(refs) |->
            <<refs[n], NewPath(h, item, deps[k], root_item)
                          \o <<Name(h[deps[k]].path)>> >>]])

\* (mutation) no new identifier is given to the root
NewIdentifierNotForRoot(h, item) ==
    IF h[item].path = RootPath THEN FullPath(h[item].path)
    ELSE LoaderPath \o <<Name(h[item].path)>>

\* patch, line 90: the -id argument
NewIdentifier(h, item) == LoaderPath \o <<Name(h[item].path)>>

\* (mutation) the file is copied after install_name_tool was started
SpawnBeforeCopy(h, item, root_item) ==
    << [op |-> "spawn", item |-> item,
        target |-> PatchTarget(h, item, root_item),
        id |-> NewIdentifier(h, item),
        changes |-> Changes(h, item, root_item)] >>
    \o CopyEvents(h, item, root_item)

\* patch, lines 84-98: what happens for one item up to the start of its
\* install_name_tool process
SpawnEvents(h, item, root_item) ==
    CopyEvents(h, item, root_item) \o
    << [op |-> "spawn", item |-> item,
        target |-> PatchTarget(h, item, root_item),
        id |-> NewIdentifier(h, item),
        changes |-> Changes(h, item, root_item)] >>

\* (mutation) the processes are started in the loop and awaited after it
AwaitAfterLoop == FALSE

\* patch, lines 98-102: the process is awaited inside the loop, before the
\* next item is taken
AwaitEachProcess == TRUE

PatchItem ==
    /\ pc = "patch"
    /\ pi <= Len(items)
    /\ log' = log \o SpawnEvents(heap, items[pi], Root)
    /\ pc' = IF AwaitEachProcess THEN "communicate" ELSE "patch"
    /\ pi' = IF AwaitEachProcess THEN pi ELSE pi + 1
    /\ UNCHANGED <<args, collectVars, listing, items, process_results,
                   reported, exit_code>>

NumFailures(rs) == Cardinality({k \in 1..Len(rs) : rs[k] # 0})

\* patch, lines 102-103: the process of items[pi] exits with returncode
Communicate(returncode) ==
    /\ pc = "communicate"
    /\ returncode # 0 => NumFailures(process_results) < MaxPatchFailures
    /\ log' = Append(log, [op |-> "exit", item |-> items[pi], returncode |-> returncode])
    /\ process_results' = Append(process_results, returncode)
    /\ pi' = pi + 1
    /\ pc' = "patch"
    /\ UNCHANGED <<args, collectVars, listing, items, reported, exit_code>>

\* (mutation) the results are paired with the dependencies only, not with
\* [root_item] + dependencies
ReportedShifted(rs, its) ==
    LET failed == SelectSeqBy([k \in 1..Len(its) |-> k],
                              {k \in 1..(Len(its) - 1) : k <= Len(rs) /\ rs[k] # 0})
    IN  [n \in 1..Len(failed) |-> its[failed[n] + 1]]

\* patch, lines 105-109: the items whose name is printed after 'Error
\* patching', i.e. those zip pairs with a non-zero return code
Reported(rs, its) ==
    LET failed == SelectSeqBy([k \in 1..Len(its) |-> k],
                              {k \in 1..Len(its) : k <= Len(rs) /\ rs[k] # 0})
    IN  [n \in 1..Len(failed) |-> its[failed[n]]]

\* patch, lines 105-114, and main, lines 177-185: PatchError is raised when
\* some return code is non-zero, and main turns it into exit status 1
PatchFinish ==
    /\ pc = "patch"
    /\ pi > Len(items)
    /\ reported' = Reported(process_results, items)
    /\ IF NumFailures(process_results) > 0
       THEN pc' = "patch_error" /\ exit_code' = 1
       ELSE pc' = "exit" /\ exit_code' = 0
    /\ UNCHANGED <<args, collectVars, listing, items, pi, log, process_results>>

Next ==
    \/ MainStart
    \/ CollectStart
    \/ PopWave
    \/ \E k \in 1..2 : InspectDone(k)
    \/ GatherDone
    \/ MergeStep
    \/ MergeNextItem
    \/ MergeDone
    \/ CollectReturn
    \/ PrepatchOutput
    \/ DryRunExit
    \/ PatchStart
    \/ PatchItem
    \/ \E returncode \in {0, 1} : Communicate(returncode)
    \/ PatchFinish

Spec == Init /\ [][Next]_vars

\* whole runs of main() over graphs of at most MaxSmallEdges load commands
InitSmall ==
    /\ args \in [file_exists : BOOLEAN, dry_run : BOOLEAN, verbose : BOOLEAN,
                  destination : Destinations]
    /\ pc = "main"
    /\ otool = [p \in NonSysPaths |-> NotInspected]
    /\ budget = MaxSmallEdges
    /\ heap = <<>>
    /\ stack = <<>>
    /\ current_items = <<>>
    /\ all_resolved = <<>>
    /\ failed_paths = <<>>
    /\ pending = {}
    /\ results = <<>>
    /\ inspections = {}
    /\ wave = 0
    /\ to_resolve = <<>>
    /\ mi = 1
    /\ mj = 1
    /\ warned = FALSE
    /\ listing = <<>>
    /\ items = <<>>
    /\ pi = 1
    /\ log = <<>>
    /\ process_results = <<>>
    /\ reported = <<>>
    /\ exit_code = -1

SpecSmall == InitSmall /\ [][Next]_vars

\* collect(root_dep) on its own, with the graphs used to check termination
InitFair ==
    /\ args \in [file_exists : {TRUE}, dry_run : {FALSE}, verbose : {FALSE},
                  destination : {<<"..", "libs">>}]
    /\ pc = "collect"
    /\ otool = [p \in NonSysPaths |-> NotInspected]
    /\ budget \in {MaxFairEdges}
    /\ heap = (Root :> NewDependency("argfile", RootPath))
    /\ stack = <<>>
    /\ current_items = <<>>
    /\ all_resolved = <<>>
    /\ failed_paths = <<>>
    /\ pending = {}
    /\ results = <<>>
    /\ inspections = {}
    /\ wave = 0
    /\ to_resolve = <<>>
    /\ mi = 1
    /\ mj = 1
    /\ warned = FALSE
    /\ listing = <<>>
    /\ items = <<>>
    /\ pi = 1
    /\ log = <<>>
    /\ process_results = <<>>
    /\ reported = <<>>
    /\ exit_code = -1

\* the event loop runs the coroutine whenever it can continue, and every
\* inspection that was issued completes
FairCollect == InitFair /\ [][NextCollect]_vars /\ WF_vars(NextCollect)

\* =================================================================== claims
\* collect() has returned
CollectDone == pc \notin {"main", "collect", "loop", "gather", "merge"}

PathsOf(list) == {heap[o].path : o \in Range(list)}

\* the load commands inspection reported for path p
CmdsOf(p) == Range(otool[p].cmds)

\* the non-system paths the binary at p refers to
NonSysTargets(p) == {c[2] : c \in CmdsOf(p)} \cap NonSysPaths

RECURSIVE ReachFrom(_)
ReachFrom(S) ==
    LET T == S \cup UNION {NonSysTargets(p) : p \in S}
    IN  IF T = S THEN S ELSE ReachFrom(T)

\* every object queued for a later frontier
Queued == Range(Flatten(stack)) \cup (IF pc = "merge" THEN Range(to_resolve) ELSE {})

NoDup(list) == \A k, l \in 1..Len(list) : list[k] = list[l] => k = l

\* C1 (closure completeness): when collect has finished, the paths of
\* all_resolved are the root plus exactly the non-system paths reachable from
\* the root through non-system references.
C1_ClosureComplete ==
    CollectDone =>
        /\ PathsOf(all_resolved) = ReachFrom({RootPath})
        /\ \A p \in PathsOf(all_resolved) : ~is_sys(p)

\* a finished run over a graph with a cycle through the root, a reference to
\* a system library and an unreachable library
C1_Witness ==
    /\ CollectDone
    /\ Cardinality(PathsOf(all_resolved)) = 3
    /\ \E p \in NonSysPaths \ {RootPath} : RootPath \in NonSysTargets(p)
    /\ \E p \in NonSysPaths : \E c \in CmdsOf(p) : c[2] \in SysPaths

\* an object whose path is already in all_resolved is never queued
NoRequeue == \A o \in Queued : heap[o].path \notin PathsOf(all_resolved)

\* C2 (cycle safety): the wave loop reaches an empty frontier and collect
\* returns, and an object whose path entered all_resolved is never queued
\* into a later frontier, so every path ends up as exactly one object.
C2_CycleSafe ==
    /\ <>(CollectDone)
    /\ [](NoRequeue)
    /\ [](CollectDone => NoDup(all_resolved) /\
             Cardinality(PathsOf(all_resolved)) = Len(all_resolved))

\* a finished run over a graph where libA and lib/libB refer to each other
C2_Witness ==
    /\ CollectDone
    /\ <<"lib", "libB">> \in NonSysTargets(<<"lib", "libA">>)
    /\ <<"lib", "libA">> \in NonSysTargets(<<"lib", "libB">>)
    /\ Len(all_resolved) = 3

\* C3 (single instance): in every state of collect, all_resolved together
\* with the queued frontier holds at most one object per canonical path.
C3_SingleInstance ==
    /\ NoDup(all_resolved)
    /\ NoDup(to_resolve)
    /\ NoDup(Flatten(stack))
    /\ \A a, b \in Range(all_resolved) \cup Queued :
          heap[a].path = heap[b].path => a = b

\* the same library was found again while it was queued, and once more when
\* it was resolved
C3_Witness ==
    /\ CollectDone
    /\ \E o \in Range(all_resolved) : Cardinality(heap[o].referred_as) = 2
    /\ \E p \in NonSysPaths : \E c, d \in CmdsOf(p) : c # d /\ c[2] = d[2] /\ c[2] \in NonSysPaths
    /\ Len(all_resolved) = 3

\* positions of the events of one kind in the log
Events(op) == {k \in 1..Len(log) : log[k].op = op}

\* patch() has run to its end
PatchDone == pc \in {"exit", "patch_error"} /\ Len(items) > 0

\* C4 (edge closure and identity): once collect has finished, every entry of
\* the edge list of a resolved object is itself an element of all_resolved,
\* and no edge list holds two entries with the same canonical path.
C4_EdgeClosure ==
    CollectDone =>
        \A n \in Range(all_resolved) :
            LET edges == get_direct_dependencies(heap, n) IN
            /\ \A k \in 1..Len(edges) : edges[k] \in Range(all_resolved)
            /\ \A k, l \in 1..Len(edges) :
                  heap[edges[k]].path = heap[edges[l]].path => k = l

\* the -change arguments of the invocation logged at position k that
\* rewrite reference string r
ChangesOf(k, r) == {c \in Range(log[k].changes) : c[1] = r}

ExpectedReference(c, d) ==
    IF heap[d].path = RootPath THEN <<"@loader_path", Name(RootPath)>>
    ELSE IF heap[c].path = RootPath THEN RootLoaderPath \o <<Name(heap[d].path)>>
    ELSE <<"@loader_path", Name(heap[d].path)>>

\* C6 (new reference per edge): the -change arguments of every invocation
\* are, for each edge and each reference string of the dependency,
\* @loader_path/<root name> when the dependency is the root, else
\* rootLoaderPath/<name> when the consumer is the root, else
\* @loader_path/<name>.
C6_NewReference ==
    \A k \in Events("spawn") :
        Range(log[k].changes) =
            {<<r, ExpectedReference(log[k].item, d)>> :
                <<r, d>> \in {x \in (RefStrings \cup {"argfile"}) \X
                                   Range(get_direct_dependencies(heap, log[k].item)) :
                              x[1] \in heap[x[2]].referred_as}}

\* the root refers to itself and to libA, libA refers to lib/libB, the
\* destination is the relative one, and all three cases were emitted
C6_Witness ==
    /\ args.destination = <<"..", "libs">>
    /\ \E k \in Events("spawn") :
          /\ log[k].item = Root
          /\ <<"r1", <<"@loader_path", "app">>>> \in Range(log[k].changes)
          /\ <<"r2", <<"@loader_path", "..", "libs", "libA">>>> \in Range(log[k].changes)
    /\ \E k \in Events("spawn") :
          /\ log[k].item # Root
          /\ <<"r1", <<"@loader_path", "libB">>>> \in Range(log[k].changes)

\* C7 (aggregate failure): PatchError is raised only after every item was
\* copied and patched, a run with a non-zero return code ends in PatchError,
\* and the items reported are exactly those whose invocation returned
\* non-zero.
C7_AggregateFailure ==
    /\ pc = "patch_error" =>
          /\ Len(process_results) = Len(items)
          /\ \A n \in 1..Len(items) :
                /\ \E k \in Events("spawn") : log[k].item = items[n]
                /\ \E k \in Events("exit") : log[k].item = items[n]
                /\ items[n] # Root => \E k \in Events("copyfile") : log[k].item = items[n]
          /\ Range(reported) =
                {items[n] : n \in {m \in 1..Len(items) : process_results[m] # 0}}
          /\ Len(reported) = NumFailures(process_results)
          /\ exit_code = 1
    /\ (pc = "exit" /\ Len(items) > 0) =>
          (NumFailures(process_results) = 0 /\ reported = <<>>)
    /\ Len(reported) > 0 => pc = "patch_error"

\* the invocation for the first of three dependencies failed, the other two
\* were still copied and patched
C7_Witness ==
    /\ pc = "patch_error"
    /\ Len(items) = 4
    /\ process_results = <<0, 1, 0, 0>>
    /\ reported = <<items[2]>>

\* C8 (copy before patch): an invocation for a non-root item targets the
\* file in the destination directory, which was created and into which the
\* item was copied before; the root is never copied and is patched at its
\* own path.
C8_CopyBeforePatch ==
    LET spawns == Events("spawn")
        copies == Events("copyfile")
        mkdirs == {m \in Events("makedirs") : log[m].path = DestPath}
    IN  /\ \A k \in spawns :
              IF heap[log[k].item].path = RootPath
              THEN log[k].target = FullPath(RootPath)
              ELSE /\ log[k].target = DestPath \o <<Name(heap[log[k].item].path)>>
                   /\ \E j \in copies :
                         /\ j < k
                         /\ log[j].item = log[k].item
                         /\ log[j].src = FullPath(heap[log[k].item].path)
                         /\ log[j].dst = log[k].target
                         /\ \E m \in mkdirs : m < j
                         /\ \A l \in copies : (j < l /\ l < k) => log[l].dst # log[k].target
        /\ \A j \in copies :
              log[j].src # FullPath(RootPath) /\ heap[log[j].item].path # RootPath

\* a whole run in which libA, which refers back to the root, and another
\* library were copied and patched
C8_Witness ==
    /\ PatchDone
    /\ Len(items) = 3
    /\ RootPath \in NonSysTargets(<<"lib", "libA">>)
    /\ Cardinality(Events("copyfile")) = 2

\* C9 (exactly once): in a run of patch every non-root object of the closed
\* graph is copied once and patched once, the root is patched once and never
\* copied, and no destination file is written by more than one copy.
C9_ExactlyOnce ==
    PatchDone =>
        /\ \A o \in Range(all_resolved) :
              /\ Cardinality({k \in Events("spawn") : log[k].item = o}) = 1
              /\ Cardinality({k \in Events("copyfile") : log[k].item = o}) =
                    (IF o = Root THEN 0 ELSE 1)
        /\ \A j, k \in Events("copyfile") : log[j].dst = log[k].dst => j = k

\* C10 (dry run): with the dry-run flag set the destination directory is
\* never created, no file is copied and install_name_tool is never started,
\* while the run that ends normally has done the discovery and the listing.
C10_DryRun ==
    args.dry_run =>
        /\ log = <<>>
        /\ items = <<>>
        /\ process_results = <<>>
        /\ pc \notin {"patch", "communicate", "patch_error"}
        /\ pc = "exit" /\ args.file_exists =>
              (wave > 0 /\ Len(all_resolved) > 0 /\ Len(listing) = Len(all_resolved))

\* a dry run that discovered two libraries and listed them
C10_Witness ==
    /\ args.dry_run
    /\ pc = "exit"
    /\ Len(all_resolved) = 3
    /\ Len(listing) = 3

\* the process has ended, with whatever exit code
Ended == exit_code # -1

\* C11 (exit code): the process exits with 1 if the input file does not
\* exist or at least one install_name_tool invocation returned non-zero,
\* and with 0 in every other run.
C11_ExitCode ==
    Ended =>
        /\ exit_code \in {0, 1}
        /\ exit_code = 1 <=>
              (~args.file_exists \/ NumFailures(process_results) > 0)

\* C12 (missing input): when the root binary does not exist the run ends
\* with exit code 1 before collect is entered: nothing is inspected, no
\* object is built, nothing is copied and no process is started.
C12_MissingInput ==
    ~args.file_exists =>
        /\ pc \in {"main", "exit"}
        /\ pc = "exit" => exit_code = 1
        /\ inspections = {} /\ wave = 0 /\ heap = <<>>
        /\ all_resolved = <<>> /\ stack = <<>>
        /\ \A p \in NonSysPaths : otool[p] = NotInspected
        /\ log = <<>> /\ items = <<>> /\ process_results = <<>>

\* the run on a missing file has ended
C12_Witness == ~args.file_exists /\ pc = "exit" /\ exit_code = 1

\* the paths find_dependencies() has been called on
InspectedPaths == {heap[i[2]].path : i \in inspections}

\* C13 (unresolvable references are non-fatal): when collect has finished,
\* failed_paths holds every unresolved load command of every inspected
\* binary, once each; the resolved objects and their edge lists are those of
\* the graph without the unresolved load commands; and a run that goes on
\* to patch starts install_name_tool for every resolved path.
C13_UnresolvedNonFatal ==
    CollectDone /\ args.file_exists =>
        /\ \A u \in RefStrings :
              Cardinality({k \in 1..Len(failed_paths) : failed_paths[k] = u}) =
              Cardinality({p \in InspectedPaths : <<u, NoFile>> \in CmdsOf(p)})
        /\ warned = (failed_paths # <<>>)
        /\ PathsOf(all_resolved) = ReachFrom({RootPath})
        /\ \A o \in Range(all_resolved) :
              LET good == Resolving(otool[heap[o].path].cmds) IN
              /\ Len(heap[o].dependencies) = Len(good)
              /\ \A k \in 1..Len(good) :
                    heap[heap[o].dependencies[k]].path = good[k][2]
        /\ PatchDone =>
              \A p \in PathsOf(all_resolved) :
                  \E k \in Events("spawn") : heap[log[k].item].path = p

\* the root has an unresolved load command and a library, found in the
\* first wave; the library was inspected in the second and both are patched
C13_Witness ==
    /\ PatchDone
    /\ failed_paths # <<>>
    /\ wave >= 2
    /\ \E u \in RefStrings : <<u, NoFile>> \in CmdsOf(RootPath)
    /\ Cardinality(Events("spawn")) >= 2

\* the objects whose path is a system location
SysObjects == {o \in DOMAIN heap : is_sys(heap[o].path)}

\* no system object is queued, resolved, inspected, an outgoing edge of a
\* resolved object, copied or patched
SysNeverHandled ==
    /\ SysObjects \cap (Queued \cup Range(all_resolved) \cup Range(current_items)) = {}
    /\ \A i \in inspections : i[2] \notin SysObjects
    /\ \A o \in Range(all_resolved) :
          Range(get_direct_dependencies(heap, o)) \cap SysObjects = {}
    /\ Range(items) \cap SysObjects = {}
    /\ \A k \in Events("copyfile") \cup Events("spawn") : log[k].item \notin SysObjects

\* C14 (system exclusion): a system object is never queued, resolved,
\* inspected, kept as an outgoing edge, copied or patched, and no
\* invocation carries a -change whose old string is one by which the
\* patched binary refers to a system library.
C14_SystemExclusion ==
    /\ SysNeverHandled
    /\ \A k \in Events("spawn") :
          \A c \in CmdsOf(heap[log[k].item].path) :
              c[2] \in SysPaths => ChangesOf(k, c[1]) = {}

\* the end-to-end scenario: app loads exactly one non-system library and one
\* system library
RootScenario ==
    /\ otool[RootPath].done
    /\ Len(otool[RootPath].cmds) = 2
    /\ \E c \in CmdsOf(RootPath) : c[2] \in NonSysPaths \ {RootPath}
    /\ \E c \in CmdsOf(RootPath) : c[2] \in SysPaths

\* the identifier app declares before the run: the path it was linked at
OriginalId == FullPath(RootPath)

\* the invocations made for the root
RootSpawns == {k \in Events("spawn") : log[k].item = Root}

\* C15, as stated (root self-identifier unchanged): in the scenario the
\* invocation for app leaves app's identifier as it was and rewrites the
\* reference to the library.
C15_RootIdUnchanged ==
    RootScenario =>
        \A k \in RootSpawns :
            /\ log[k].id = OriginalId
            /\ \A c \in CmdsOf(RootPath) :
                  c[2] \in NonSysPaths =>
                      <<c[1], RootLoaderPath \o <<Name(c[2])>> >> \in Range(log[k].changes)

\* C15, amended (root self-identifier): in the scenario the invocation for
\* app works on app in place, without a copy, sets the identifier
\* @loader_path/app like for every other binary, and rewrites the string
\* app uses for the library to the root loader path joined with the
\* library's name, and to nothing else.
C15_RootIdentifier ==
    RootScenario =>
        /\ \A k \in Events("copyfile") : log[k].item # Root
        /\ \A k \in RootSpawns :
              /\ log[k].target = FullPath(RootPath)
              /\ log[k].id = <<"@loader_path", Name(RootPath)>>
              /\ log[k].id # OriginalId
              /\ \A c \in CmdsOf(RootPath) :
                    c[2] \in NonSysPaths =>
                        ChangesOf(k, c[1]) = {<<c[1], RootLoaderPath \o <<Name(c[2])>> >>}

\* the scenario has been patched: one file copied, two invocations
C15_Witness ==
    /\ RootScenario
    /\ PatchDone
    /\ RootSpawns # {}
    /\ Cardinality(Events("copyfile")) = 1
    /\ Cardinality(Events("spawn")) = 2

\* the file system operations of one call of patch(root_item, dest_path, ..)
\* on the closed graph, made after the operations of lg
PatchRun(lg) ==
    ensure_dir(lg, DestPath) \o
    Flatten([k \in 1..Len(items) |-> SpawnEvents(heap, items[k], Root)])

\* the files in the destination directory after the operations of lg: for
\* each file the source of the last copy made to it
DestFiles(lg) ==
    {<<lg[k].dst, lg[k].src>> :
        k \in {n \in 1..Len(lg) :
                 /\ lg[n].op = "copyfile"
                 /\ \A m \in (n + 1)..Len(lg) :
                       lg[m].op = "copyfile" => lg[m].dst # lg[n].dst}}

\* the operations of lg other than the process exits
WithoutExits(lg) == SelectSeqBy(lg, {e \in Range(lg) : e.op # "exit"})

InspectedIn(w) == {i[2] : i \in {x \in inspections : x[1] = w}}

\* C17 (wave barrier): inspections are in flight only inside gather(), all
\* of them for objects of the current frontier; the merge loop runs only
\* when none is left; and an object of the next frontier is neither in
\* all_resolved nor inspected before that.
C17_WaveBarrier ==
    /\ pending # {} => pc = "gather"
    /\ pc = "merge" => pending = {}
    /\ pending \subseteq 1..Len(current_items)
    /\ \A i \in inspections : i[1] \in 1..wave
    /\ \A w \in 1..wave : \A v \in 1..wave :
          w # v => InspectedIn(w) \cap InspectedIn(v) = {}
    /\ pc \in {"gather", "merge"} =>
          /\ InspectedIn(wave) = Range(current_items)
          /\ \A o \in Queued : o \notin Range(all_resolved) /\ o \notin InspectedIn(wave)
          /\ \A k \in pending : heap[current_items[k]].dependencies = <<>>
    /\ {i[2] : i \in inspections} = Range(all_resolved)

\* two inspections of the second wave were started and one has returned
C17_Witness ==
    /\ pc = "gather"
    /\ wave = 2
    /\ Len(current_items) = 2
    /\ Cardinality(pending) = 1

\* C18, as stated (patch batching): the invocations are dispatched as one
\* batch and awaited together, so every process is started before any of
\* them is waited for.
C18_PatchBatch ==
    PatchDone =>
        \A k \in Events("spawn") : \A j \in Events("exit") : k < j

\* C18, amended (patch one by one): each invocation is awaited right after
\* it is started, before the next item is copied or patched, so at most
\* one process is in flight, and only while patch() waits for it.
C18_PatchSequential ==
    /\ \A k \in Events("spawn") :
          k < Len(log) =>
              /\ log[k + 1].op = "exit"
              /\ log[k + 1].item = log[k].item
    /\ Cardinality(Events("spawn")) - Cardinality(Events("exit")) =
          IF pc = "communicate" THEN 1 ELSE 0
    /\ Len(process_results) = Cardinality(Events("exit"))

\* the second invocation is in flight after the first was waited for
C18_Witness ==
    /\ pc = "communicate"
    /\ pi = 2
    /\ Cardinality(Events("spawn")) = 2
    /\ Cardinality(Events("exit")) = 1

\* C19 (each node inspected exactly once): find_dependencies() has been
\* called once on each object of all_resolved and on nothing else, never
\* twice on one path; and a frontier being built or just built has no two
\* objects of one path and none whose path is already resolved.
C19_InspectedOnce ==
    /\ Cardinality(inspections) = Len(all_resolved)
    /\ {i[2] : i \in inspections} = Range(all_resolved)
    /\ \A i, j \in inspections : heap[i[2]].path = heap[j[2]].path => i = j
    /\ \A p \in NonSysPaths : otool[p].done => p \in InspectedPaths
    /\ LET frontier == IF pc = "merge" THEN to_resolve
                       ELSE IF pc = "loop" /\ stack # <<>> THEN stack[Len(stack)]
                       ELSE <<>>
       IN  /\ \A k, l \in 1..Len(frontier) :
                 heap[frontier[k]].path = heap[frontier[l]].path => k = l
           /\ PathsOf(frontier) \cap PathsOf(all_resolved) = {}
           /\ \A o \in Range(frontier) : \A i \in inspections : i[2] # o

\* three binaries were inspected once each, though the root and a library
\* were both found again after they had been queued or resolved
C19_Witness ==
    /\ CollectDone
    /\ Cardinality(inspections) = 3
    /\ Len(all_resolved) = 3
    /\ Cardinality(heap[Root].referred_as) >= 2
    /\ \E o \in Range(all_resolved) \ {Root} : Cardinality(heap[o].referred_as) >= 2

\* the strings by which any inspected binary refers to path p, and for the
\* root the string given on the command line
UsedFor(p) ==
    {c[1] : c \in {x \in UNION {CmdsOf(q) : q \in InspectedPaths} : x[2] = p}}
        \cup (IF p = RootPath THEN {"argfile"} ELSE {})

\* the direct dependencies of item whose new reference is that of d
SameTarget(item, d) ==
    {e \in Range(get_direct_dependencies(heap, item)) :
        ExpectedReference(item, e) = ExpectedReference(item, d)}

\* the old strings the invocation logged at k rewrites to the new reference
\* of dependency d
Olds(k, d) ==
    {ch[1] : ch \in {x \in Range(log[k].changes) :
                        x[2] = ExpectedReference(log[k].item, d)}}

====
